---- MODULE Spec2Model ----
(***************************************************************************)
(* Model of V10.PY: parse_markdown (a line-by-line scanner that builds a   *)
(* three-level forest of region records), normalize_name, link_data (the   *)
(* parent-scoped matcher against the shapefile tables) and the pipeline    *)
(* main_data_processing / main.                                            *)
(*                                                                         *)
(* Strings are sequences of characters.  A character is a one-element      *)
(* TLA+ string; the CJK characters of the source are written in pinyin     *)
(* ("sheng" for the province suffix, "shi" for city, "qu" for district,    *)
(* "xian" for county, "zi" "zhi" "zhou" for the characters of autonomous   *)
(* prefecture / county, "di" "qu" for prefecture, "meng" for league).      *)
(***************************************************************************)
EXTENDS Integers, Sequences, FiniteSets, TLC

VARIABLES
    \* parse_markdown
    f,                    \* the lines of the file read so far (line_content values)
    pc,                   \* position of the program
    nodes,                \* the heap of region dicts, indexed by reference
    processed_data,       \* list of references to level-1 dicts
    current_province, current_city, current_district,
    active_entity, active_field, current_text_buffer,
    \* link_data / main_data_processing / main
    shp_data,             \* dict of the loaded tables
    li, lj, lk,           \* positions of the three nested loops of link_data
    parsed_md,            \* value returned by parse_markdown
    returned,             \* value returned by link_data
    main_processed_data,  \* value returned by main_data_processing
    data_store,           \* what MainWindow keeps
    \* normalize_name
    n_name,               \* argument of the first call
    n_outs                \* results of the successive calls

parseVars == <<f, nodes, processed_data, current_province, current_city,
               current_district, active_entity, active_field, current_text_buffer>>
linkVars == <<shp_data, li, lj, lk, parsed_md, returned,
             main_processed_data, data_store>>
normVars == <<n_name, n_outs>>
vars == <<pc, parseVars, linkVars, normVars>>

\* Python's None, for references, identifiers and geometries
None == 0

(***************************************************************************)
(* Bounds                                                                  *)
(***************************************************************************)
MaxNameLen == 4
MaxLines == 5
MaxTitleLen == 3
MaxLinkHeadings == 3
MaxRows == 4

(***************************************************************************)
(* Strings                                                                 *)
(***************************************************************************)
\* characters str.strip() removes
Whitespace == {" ", "\n"}

RECURSIVE lstrip(_, _)
lstrip(s, chars) ==
    IF s # <<>> /\ Head(s) \in chars THEN lstrip(Tail(s), chars) ELSE s

RECURSIVE rstrip(_, _)
rstrip(s, chars) ==
    IF s # <<>> /\ s[Len(s)] \in chars
    THEN rstrip(SubSeq(s, 1, Len(s) - 1), chars) ELSE s

\* str.strip(chars)
strip_chars(s, chars) == rstrip(lstrip(s, chars), chars)

\* str.strip()
strip(s) == strip_chars(s, Whitespace)

\* str.endswith
endswith(s, suffix) ==
    /\ Len(suffix) <= Len(s)
    /\ SubSeq(s, Len(s) - Len(suffix) + 1, Len(s)) = suffix

\* all sequences over S of length at most n
RECURSIVE SeqsUpTo(_, _)
SeqsUpTo(S, n) ==
    IF n = 0 THEN {<<>>}
    ELSE LET shorter == SeqsUpTo(S, n - 1)
         IN  shorter \cup {Append(s, c) : s \in shorter, c \in S}

(***************************************************************************)
(* normalize_name                                                          *)
(***************************************************************************)
suffixes_to_remove ==
    << <<"sheng">>, <<"shi">>, <<"qu">>, <<"xian">>,
       <<"zi", "zhi", "zhou">>, <<"zi", "zhi", "xian">>, <<"di", "qu">>,
       <<"meng">> >>

\* line 179 without the test len(name) > len(suffix)
M_remove_suffix_no_guard(name, suffix) ==
    IF endswith(name, suffix)
    THEN SubSeq(name, 1, Len(name) - Len(suffix))
    ELSE name

\* one iteration of the for loop: the test and the slice name[:-len(suffix)]
remove_suffix(name, suffix) ==
    IF endswith(name, suffix) /\ Len(name) > Len(suffix)
    THEN SubSeq(name, 1, Len(name) - Len(suffix))
    ELSE name

\* the for loop from suffix number i on
RECURSIVE normalize_from(_, _)
normalize_from(name, i) ==
    IF i > Len(suffixes_to_remove) THEN name
    ELSE normalize_from(remove_suffix(name, suffixes_to_remove[i]), i + 1)

normalize_name(name) == normalize_from(strip(name), 1)

(***************************************************************************)
(* Lines and the heading patterns.  A line is a sequence of characters     *)
(* ending in "\n".  The fixed literal parts of the five heading forms are  *)
(* single characters of the model:                                         *)
(*   "H1"    a text matching   #\s+第[0-9]+章                              *)
(*   "H2_0"  the text          ## 零、上位类说明                            *)
(*   "H2"    a text matching   ##\s+(?:一|二|...)、                        *)
(*   "H3_0"  the text          ### 0.上位类说明                             *)
(*   "H3"    a text matching   ###\s*([1-9]|1[0-9]|2[0-5])\.               *)
(***************************************************************************)
\* ^<prefix>\s*(.+)$ on a stripped line: the prefix, then at least one character
matches_titled(line, prefix) ==
    /\ line # <<>>
    /\ Head(line) = prefix
    /\ lstrip(Tail(line), Whitespace) # <<>>

\* the (.+) group of a titled pattern: what follows the prefix and \s*
title_group(line) == lstrip(Tail(line), Whitespace)

H1_MD_PATTERN(line) == matches_titled(line, "H1")
H2_SPECIAL_ZERO_PATTERN(line) == line = <<"H2_0">>
H2_MD_PATTERN(line) == matches_titled(line, "H2")
H3_SPECIAL_ZERO_PATTERN(line) == line = <<"H3_0">>
H3_MD_PATTERN(line) == matches_titled(line, "H3")

(***************************************************************************)
(* parse_markdown.  The local variables of the function are the fields of  *)
(* a record s; region dicts live in s.nodes and are referred to by index.  *)
(***************************************************************************)
RECURSIVE join(_, _)
\* sep.join(lines)
join(sep, lines) ==
    IF lines = <<>> THEN <<>>
    ELSE IF Len(lines) = 1 THEN lines[1]
    ELSE lines[1] \o sep \o join(sep, Tail(lines))

ParserState ==
    [nodes |-> nodes, processed_data |-> processed_data,
     current_province |-> current_province, current_city |-> current_city,
     current_district |-> current_district, active_entity |-> active_entity,
     active_field |-> active_field, current_text_buffer |-> current_text_buffer]

\* the locals at entry of parse_markdown
InitialParserState ==
    [nodes |-> <<>>, processed_data |-> <<>>,
     current_province |-> None, current_city |-> None,
     current_district |-> None, active_entity |-> None,
     active_field |-> "text_detail", current_text_buffer |-> <<>>]

\* active_entity[active_field] += "\n" + text_to_add, or = text_to_add
M_append_text_overwrite(old, text_to_add) == text_to_add

M_append_text_no_newline(old, text_to_add) ==
    IF old # <<>> THEN old \o text_to_add ELSE text_to_add

append_text(old, text_to_add) ==
    IF old # <<>> THEN old \o <<"\n">> \o text_to_add ELSE text_to_add

flush_buffer(s) ==
    IF s.active_entity # None /\ s.current_text_buffer # <<>>
    THEN LET text_to_add == strip(join(<<"\n">>, s.current_text_buffer))
             e == s.active_entity
             fld == s.active_field
             old == IF fld \in DOMAIN s.nodes[e] THEN s.nodes[e][fld] ELSE <<>>
             s1 == IF text_to_add # <<>>
                   THEN [s EXCEPT !.nodes[e][fld] = append_text(old, text_to_add)]
                   ELSE s
         IN  [s1 EXCEPT !.current_text_buffer = <<>>]
    ELSE s

\* lines 84-97
M_do_h1_keeps_context(s, line) ==
    LET s1 == flush_buffer(s)
        ref == Len(s1.nodes) + 1
        province == [name |-> strip(title_group(line)), level |-> 1,
                     adcode |-> None, text_general |-> <<>>,
                     text_detail |-> <<>>, geometry |-> None,
                     children |-> <<>>]
    IN  [s1 EXCEPT !.nodes = Append(@, province),
                   !.processed_data = Append(@, ref),
                   !.current_province = ref,
                   !.active_entity = ref,
                   !.active_field = "text_detail"]

M_do_h1_whole_line(s, line) ==
    LET s1 == flush_buffer(s)
        ref == Len(s1.nodes) + 1
        province == [name |-> line, level |-> 1,
                     adcode |-> None, text_general |-> <<>>,
                     text_detail |-> <<>>, geometry |-> None,
                     children |-> <<>>]
    IN  [s1 EXCEPT !.nodes = Append(@, province),
                   !.processed_data = Append(@, ref),
                   !.current_province = ref,
                   !.active_entity = ref,
                   !.active_field = "text_detail",
                   !.current_city = None,
                   !.current_district = None]

M_do_h1_chapter_as_adcode(s, line) ==
    LET s1 == flush_buffer(s)
        ref == Len(s1.nodes) + 1
        province == [name |-> strip(title_group(line)), level |-> 1,
                     adcode |-> Len(s1.processed_data) + 1, text_general |-> <<>>,
                     text_detail |-> <<>>, geometry |-> None,
                     children |-> <<>>]
    IN  [s1 EXCEPT !.nodes = Append(@, province),
                   !.processed_data = Append(@, ref),
                   !.current_province = ref,
                   !.active_entity = ref,
                   !.active_field = "text_detail",
                   !.current_city = None,
                   !.current_district = None]

do_h1(s, line) ==
    LET s1 == flush_buffer(s)
        ref == Len(s1.nodes) + 1
        province == [name |-> strip(title_group(line)), level |-> 1,
                     adcode |-> None, text_general |-> <<>>,
                     text_detail |-> <<>>, geometry |-> None,
                     children |-> <<>>]
    IN  [s1 EXCEPT !.nodes = Append(@, province),
                   !.processed_data = Append(@, ref),
                   !.current_province = ref,
                   !.active_entity = ref,
                   !.active_field = "text_detail",
                   !.current_city = None,
                   !.current_district = None]

\* lines 99-103
M_do_h1_general_clears_city(s) ==
    LET s1 == flush_buffer(s)
    IN  [s1 EXCEPT !.active_entity = s1.current_province,
                   !.active_field = "text_general",
                   !.current_city = None,
                   !.current_district = None]

M_do_h1_general_keeps_entity(s) ==
    LET s1 == flush_buffer(s)
    IN  [s1 EXCEPT !.active_field = "text_general"]

do_h1_general(s) ==
    LET s1 == flush_buffer(s)
    IN  [s1 EXCEPT !.active_entity = s1.current_province,
                   !.active_field = "text_general"]

\* lines 106-119
M_do_h2_prepends(s, line) ==
    LET s1 == flush_buffer(s)
        ref == Len(s1.nodes) + 1
        p == s1.current_province
        city == [name |-> strip(title_group(line)), level |-> 2,
                 parent_name |-> s1.nodes[p].name,
                 parent_adcode |-> s1.nodes[p].adcode,
                 adcode |-> None, text_general |-> <<>>,
                 text_detail |-> <<>>, geometry |-> None,
                 children |-> <<>>]
    IN  [s1 EXCEPT !.nodes = Append([@ EXCEPT ![p].children = <<ref>> \o @], city),
                   !.current_city = ref,
                   !.active_entity = ref,
                   !.active_field = "text_detail",
                   !.current_district = None]

do_h2(s, line) ==
    LET s1 == flush_buffer(s)
        ref == Len(s1.nodes) + 1
        p == s1.current_province
        city == [name |-> strip(title_group(line)), level |-> 2,
                 parent_name |-> s1.nodes[p].name,
                 parent_adcode |-> s1.nodes[p].adcode,
                 adcode |-> None, text_general |-> <<>>,
                 text_detail |-> <<>>, geometry |-> None,
                 children |-> <<>>]
    IN  [s1 EXCEPT !.nodes = Append([@ EXCEPT ![p].children = Append(@, ref)], city),
                   !.current_city = ref,
                   !.active_entity = ref,
                   !.active_field = "text_detail",
                   !.current_district = None]

\* lines 121-125
M_do_h2_general_keeps_entity(s) ==
    LET s1 == flush_buffer(s)
    IN  [s1 EXCEPT !.active_field = "text_general"]

do_h2_general(s) ==
    LET s1 == flush_buffer(s)
    IN  [s1 EXCEPT !.active_entity = s1.current_city,
                   !.active_field = "text_general"]

\* lines 128-141
M_do_h3_parent_from_province(s, line) ==
    LET s1 == flush_buffer(s)
        ref == Len(s1.nodes) + 1
        c == s1.current_city
        p == s1.current_province
        district == [name |-> strip(title_group(line)), level |-> 3,
                     parent_name |-> s1.nodes[p].name,
                     parent_adcode |-> s1.nodes[p].adcode,
                     adcode |-> None, text_general |-> <<>>,
                     text_detail |-> <<>>, geometry |-> None]
    IN  [s1 EXCEPT !.nodes = Append([@ EXCEPT ![c].children = Append(@, ref)], district),
                   !.current_district = ref,
                   !.active_entity = ref,
                   !.active_field = "text_detail"]

M_do_h3_no_flush(s, line) ==
    LET ref == Len(s.nodes) + 1
        c == s.current_city
        district == [name |-> strip(title_group(line)), level |-> 3,
                     parent_name |-> s.nodes[c].name,
                     parent_adcode |-> s.nodes[c].adcode,
                     adcode |-> None, text_general |-> <<>>,
                     text_detail |-> <<>>, geometry |-> None]
    IN  [s EXCEPT !.nodes = Append([@ EXCEPT ![c].children = Append(@, ref)], district),
                  !.current_district = ref,
                  !.active_entity = ref,
                  !.active_field = "text_detail"]

do_h3(s, line) ==
    LET s1 == flush_buffer(s)
        ref == Len(s1.nodes) + 1
        c == s1.current_city
        district == [name |-> strip(title_group(line)), level |-> 3,
                     parent_name |-> s1.nodes[c].name,
                     parent_adcode |-> s1.nodes[c].adcode,
                     adcode |-> None, text_general |-> <<>>,
                     text_detail |-> <<>>, geometry |-> None]
    IN  [s1 EXCEPT !.nodes = Append([@ EXCEPT ![c].children = Append(@, ref)], district),
                   !.current_district = ref,
                   !.active_entity = ref,
                   !.active_field = "text_detail"]

\* line 143
do_text(s, line_content) ==
    [s EXCEPT !.current_text_buffer = Append(@, strip_chars(line_content, {"\n"}))]

\* which branch of the loop body (lines 80-143) a line takes in state s
M_Branch_buffers_blank(s, line_content) ==
    LET line == strip(line_content)
    IN  IF line = <<>> THEN "text"
        ELSE IF H1_MD_PATTERN(line) THEN "h1"
        ELSE IF s.current_province # None /\ H2_SPECIAL_ZERO_PATTERN(line)
             THEN "h1_general"
        ELSE IF s.current_province # None /\ H2_MD_PATTERN(line) THEN "h2"
        ELSE IF s.current_city # None /\ H3_SPECIAL_ZERO_PATTERN(line)
             THEN "h2_general"
        ELSE IF s.current_city # None /\ H3_MD_PATTERN(line) THEN "h3"
        ELSE "text"

M_Branch_skips_out_of_scope(s, line_content) ==
    LET line == strip(line_content)
    IN  IF line = <<>> THEN "blank"
        ELSE IF H1_MD_PATTERN(line) THEN "h1"
        ELSE IF H2_SPECIAL_ZERO_PATTERN(line)
             THEN IF s.current_province # None THEN "h1_general" ELSE "blank"
        ELSE IF H2_MD_PATTERN(line)
             THEN IF s.current_province # None THEN "h2" ELSE "blank"
        ELSE IF H3_SPECIAL_ZERO_PATTERN(line)
             THEN IF s.current_city # None THEN "h2_general" ELSE "blank"
        ELSE IF H3_MD_PATTERN(line)
             THEN IF s.current_city # None THEN "h3" ELSE "blank"
        ELSE "text"

Branch(s, line_content) ==
    LET line == strip(line_content)
    IN  IF line = <<>> THEN "blank"
        ELSE IF H1_MD_PATTERN(line) THEN "h1"
        ELSE IF s.current_province # None /\ H2_SPECIAL_ZERO_PATTERN(line)
             THEN "h1_general"
        ELSE IF s.current_province # None /\ H2_MD_PATTERN(line) THEN "h2"
        ELSE IF s.current_city # None /\ H3_SPECIAL_ZERO_PATTERN(line)
             THEN "h2_general"
        ELSE IF s.current_city # None /\ H3_MD_PATTERN(line) THEN "h3"
        ELSE "text"

\* the loop body
process_line(s, line_content) ==
    LET line == strip(line_content)
        b == Branch(s, line_content)
    IN  CASE b = "blank" -> s
          [] b = "h1" -> do_h1(s, line)
          [] b = "h1_general" -> do_h1_general(s)
          [] b = "h2" -> do_h2(s, line)
          [] b = "h2_general" -> do_h2_general(s)
          [] b = "h3" -> do_h3(s, line)
          [] b = "text" -> do_text(s, line_content)

\* the for loop over the lines of a file
RECURSIVE process_lines(_, _)
process_lines(s, lines) ==
    IF lines = <<>> THEN s
    ELSE process_lines(process_line(s, Head(lines)), Tail(lines))

\* parse_markdown on a file that exists: the loop, then the final flush
parse_state(lines) == flush_buffer(process_lines(InitialParserState, lines))

(***************************************************************************)
(* The parser as a state machine: one step per line of the file            *)
(***************************************************************************)
\* the lines a file is made of
LineBodies ==
    { <<" ", "H1", " ", "a", " ">>,     \* top-tier heading, indented, title a
      <<"H2_0">>,                       \* top-tier general marker
      <<"H2", "b">>,                    \* mid-tier heading, title b
      <<"H3_0">>,                       \* mid-tier general marker
      <<"H3", " ", "c">>,               \* bottom-tier heading, title c
      <<"t">>,                          \* narrative text
      <<" ", "u", " ">>,                \* narrative text with surrounding blanks
      <<" ">> }                         \* a blank line

Lines == {body \o <<"\n">> : body \in LineBodies}

SetParser(s) ==
    /\ nodes' = s.nodes
    /\ processed_data' = s.processed_data
    /\ current_province' = s.current_province
    /\ current_city' = s.current_city
    /\ current_district' = s.current_district
    /\ active_entity' = s.active_entity
    /\ active_field' = s.active_field
    /\ current_text_buffer' = s.current_text_buffer

LinkIdle ==
    /\ shp_data = <<>>
    /\ li = 0 /\ lj = 0 /\ lk = 0
    /\ parsed_md = <<>>
    /\ returned = <<>>
    /\ main_processed_data = [none |-> TRUE, list |-> <<>>]
    /\ data_store = <<>>

NormIdle == n_name = <<>> /\ n_outs = <<>>

Init ==
    /\ pc = "open"
    /\ f = <<>>
    /\ nodes = <<>> /\ processed_data = <<>>
    /\ current_province = None /\ current_city = None /\ current_district = None
    /\ active_entity = None /\ active_field = "text_detail"
    /\ current_text_buffer = <<>>
    /\ LinkIdle
    /\ NormIdle

\* open() succeeds
OpenFile ==
    /\ pc = "open"
    /\ pc' = "read"
    /\ UNCHANGED <<parseVars, linkVars, normVars>>

\* open() raises FileNotFoundError: return []
FileNotFound ==
    /\ pc = "open"
    /\ parsed_md' = <<>>
    /\ pc' = "parsed"
    /\ UNCHANGED <<parseVars, normVars, shp_data, li, lj, lk, returned,
                   main_processed_data, data_store>>

\* one iteration of the for loop, on a line that takes branch b
ReadLine(b) ==
    /\ Len(f) < MaxLines
    /\ \E line_content \in Lines :
          /\ Branch(ParserState, line_content) = b
          /\ SetParser(process_line(ParserState, line_content))
          /\ f' = Append(f, line_content)
    /\ UNCHANGED <<pc, linkVars, normVars>>

SkipBlank == pc = "read" /\ ReadLine("blank")
ReadH1 == pc = "read" /\ ReadLine("h1")
ReadH1General == pc = "read" /\ ReadLine("h1_general")
ReadH2 == pc = "read" /\ ReadLine("h2")
ReadH2General == pc = "read" /\ ReadLine("h2_general")
ReadH3 == pc = "read" /\ ReadLine("h3")
ReadText == pc = "read" /\ ReadLine("text")

\* the end of the file: the final flush and the return
M_EndOfFile_no_flush ==
    /\ pc = "read"
    /\ parsed_md' = processed_data
    /\ pc' = "parsed"
    /\ UNCHANGED <<parseVars, normVars, shp_data, li, lj, lk, returned,
                   main_processed_data, data_store>>

EndOfFile ==
    /\ pc = "read"
    /\ SetParser(flush_buffer(ParserState))
    /\ parsed_md' = processed_data
    /\ pc' = "parsed"
    /\ UNCHANGED <<f, normVars, shp_data, li, lj, lk, returned,
                   main_processed_data, data_store>>

Next ==
    \/ OpenFile
    \/ FileNotFound
    \/ SkipBlank
    \/ ReadH1
    \/ ReadH1General
    \/ ReadH2
    \/ ReadH2General
    \/ ReadH3
    \/ ReadText
    \/ EndOfFile

Spec == Init /\ [][Next]_vars

(***************************************************************************)
(* normalize_name as a state machine: the name is normalized, and the      *)
(* result is normalized again                                              *)
(***************************************************************************)
NormChars == {"x", " ", "sheng", "shi", "qu", "xian", "zi", "zhi", "zhou", "di", "meng"}

\* the names of at most n characters
NormNames(n) == SeqsUpTo(NormChars, n)

ParseIdle ==
    /\ f = <<>>
    /\ nodes = <<>> /\ processed_data = <<>>
    /\ current_province = None /\ current_city = None /\ current_district = None
    /\ active_entity = None /\ active_field = "text_detail"
    /\ current_text_buffer = <<>>

InitNorm ==
    /\ pc = "normalize"
    /\ n_name \in NormNames(MaxNameLen)
    /\ n_outs = <<>>
    /\ ParseIdle
    /\ LinkIdle

CallNormalize ==
    /\ pc = "normalize"
    /\ Len(n_outs) < 2
    /\ n_outs' = Append(n_outs, normalize_name(IF n_outs = <<>> THEN n_name
                                               ELSE n_outs[Len(n_outs)]))
    /\ UNCHANGED <<pc, n_name, parseVars, linkVars>>

NextNorm == CallNormalize

SpecNorm == InitNorm /\ [][NextNorm]_vars

(***************************************************************************)
(* The parser on the five-line files                                       *)
(*   top-tier heading, mid-tier heading, text, bottom-tier heading, text   *)
(***************************************************************************)
TitleChars == {"x", " "}

\* titles of at most n characters: non-empty, without surrounding blanks
TitlesUpTo(n) == {t \in SeqsUpTo(TitleChars, n) : t # <<>> /\ strip(t) = t}

\* lines that match none of the five heading forms
E2ENarrative ==
    { <<"t">>, <<" ", "u", " ">>, <<"t", " ", "u">>, <<"H1">> }

HeadingLine(prefix, title) == <<prefix, " ">> \o title \o <<"\n">>

\* the lines that may stand at position k of the file
E2ELinesAt(k) ==
    CASE k = 1 -> {HeadingLine("H1", t) : t \in TitlesUpTo(MaxTitleLen)}
      [] k = 2 -> {HeadingLine("H2", t) : t \in TitlesUpTo(MaxTitleLen)}
      [] k = 4 -> {HeadingLine("H3", t) : t \in TitlesUpTo(MaxTitleLen)}
      [] OTHER -> {a \o <<"\n">> : a \in E2ENarrative}

E2ERead ==
    /\ pc = "read"
    /\ Len(f) < 5
    /\ \E line_content \in E2ELinesAt(Len(f) + 1) :
          /\ SetParser(process_line(ParserState, line_content))
          /\ f' = Append(f, line_content)
    /\ UNCHANGED <<pc, linkVars, normVars>>

E2EEndOfFile == Len(f) = 5 /\ EndOfFile

NextE2E ==
    \/ OpenFile
    \/ E2ERead
    \/ E2EEndOfFile

SpecE2E == Init /\ [][NextE2E]_vars

(***************************************************************************)
(* link_data.  A table (GeoDataFrame) is a sequence of rows, a row a       *)
(* record of its columns; shp_data is a function from the keys that are    *)
(* present to tables.  md_data is parsed_md, the list parse_markdown       *)
(* returned, and the region dicts are those of nodes.                      *)
(***************************************************************************)
\* gdf.empty
empty(gdf) == gdf = <<>>

\* gdf.columns
columns(gdf) == IF gdf = <<>> THEN {} ELSE DOMAIN gdf[1]

\* node.get("children", [])
get_children(node) == IF "children" \in DOMAIN node THEN node.children ELSE <<>>

\* lines 185-189
M_essential_keys_only(shp) ==
    {"province", "city", "district"} \subseteq DOMAIN shp

essential_shp_loaded_and_not_empty(shp) ==
    /\ "province" \in DOMAIN shp /\ ~empty(shp["province"])
    /\ "city" \in DOMAIN shp /\ ~empty(shp["city"])
    /\ "district" \in DOMAIN shp /\ ~empty(shp["district"])

\* gdf[gdf[name_column].astype(str).apply(normalize_name) == normalized]
M_matching_name_prefix(gdf, name_column, normalized) ==
    LET Test(row) ==
            LET n == normalize_name(row[name_column])
            IN  Len(normalized) <= Len(n) /\ SubSeq(n, 1, Len(normalized)) = normalized
    IN  SelectSeq(gdf, Test)

matching_name(gdf, name_column, normalized) ==
    LET Test(row) == normalize_name(row[name_column]) = normalized
    IN  SelectSeq(gdf, Test)

\* gdf[gdf[parent_column] == adcode]
M_with_parent_unscoped(gdf, parent_column, adcode) == gdf

with_parent(gdf, parent_column, adcode) ==
    LET Test(row) == row[parent_column] = adcode
    IN  SelectSeq(gdf, Test)

\* matched.iloc[0]
M_iloc_last(matched) == matched[Len(matched)]

iloc_0(matched) == matched[1]

\* lines 200-210: the rows of the top-tier table that match province p
matched_prov_shp(nd, shp, p) ==
    matching_name(shp["province"], "pr_name", normalize_name(nd[p].name))

\* lines 213-219: the rows that match city c of province p
matched_city_shp(nd, shp, p, c) ==
    matching_name(with_parent(shp["city"], "pr_adcode", nd[p].adcode),
                  "ct_name", normalize_name(nd[c].name))

\* lines 227-233: the rows that match district d of city c
matched_district_shp(nd, shp, c, d) ==
    matching_name(with_parent(shp["district"], "ct_adcode", nd[c].adcode),
                  "dt_name", normalize_name(nd[d].name))

\* node["adcode"] = row[adcode_column]; node["geometry"] = row.geometry
M_assign_updates_children(nd, n, row, adcode_column) ==
    LET kids == {get_children(nd[n])[i] : i \in 1..Len(get_children(nd[n]))}
    IN  [i \in DOMAIN nd |->
            IF i = n
            THEN [nd[i] EXCEPT !.adcode = row[adcode_column],
                               !.geometry = row.geometry]
            ELSE IF i \in kids
            THEN [nd[i] EXCEPT !.parent_adcode = row[adcode_column]]
            ELSE nd[i]]

M_assign_unsets_others(nd, n, row, adcode_column) ==
    [i \in DOMAIN nd |->
        IF i = n
        THEN [nd[i] EXCEPT !.adcode = row[adcode_column], !.geometry = row.geometry]
        ELSE [nd[i] EXCEPT !.adcode = None, !.geometry = None]]

assign(nd, n, row, adcode_column) ==
    [nd EXCEPT ![n].adcode = row[adcode_column], ![n].geometry = row.geometry]

\* the node under the loop positions
M_province_md_first == parsed_md[1]

province_md == parsed_md[li]
city_md == get_children(nodes[province_md])[lj]
district_md == get_children(nodes[city_md])[lk]

\* the loop positions after the body for city lj of province li ends
NextCity ==
    IF lj < Len(get_children(nodes[province_md]))
    THEN /\ li' = li /\ lj' = lj + 1 /\ lk' = 0
    ELSE /\ li' = li + 1 /\ lj' = 0 /\ lk' = 0

\* the loop positions after the body for district lk ends
NextDistrict ==
    IF lk < Len(get_children(nodes[city_md]))
    THEN /\ li' = li /\ lj' = lj /\ lk' = lk + 1
    ELSE NextCity

(***************************************************************************)
(* The tables load_shapefiles may return                                   *)
(***************************************************************************)
TableNames == { <<"x", "shi">>, <<"x", "y">> }
ParentIds == {1, 2}

\* the identifier of a row is its position in its table; its geometry is
\* a value no other row has
ProvinceTable(names) ==
    [i \in 1..Len(names) |->
        [pr_name |-> names[i], pr_adcode |-> i, geometry |-> 100 + i]]

CityTable(rows) ==
    [i \in 1..Len(rows) |->
        [ct_name |-> rows[i][1], pr_adcode |-> rows[i][2], ct_adcode |-> i,
         geometry |-> 200 + i]]

DistrictTable(rows) ==
    [i \in 1..Len(rows) |->
        [dt_name |-> rows[i][1], ct_adcode |-> rows[i][2], dt_adcode |-> i,
         geometry |-> 300 + i]]

CountryTable == << [geometry |-> 400] >>

ShpData(country, province, city, district) ==
    [k \in {"country", "province", "city", "district"} |->
        CASE k = "country" -> country
          [] k = "province" -> province
          [] k = "city" -> city
          [] k = "district" -> district]

\* the four files exist and hold rows: at most max_rows rows in the three
\* tables link_data reads
CompleteShpData(max_rows) ==
    UNION { UNION { UNION {
        { ShpData(CountryTable, ProvinceTable(pn), CityTable(cr), DistrictTable(dr)) :
            pn \in [1..np -> TableNames],
            cr \in [1..nc -> TableNames \X ParentIds],
            dr \in [1..nd -> TableNames \X ParentIds] }
        : nd \in 1..(max_rows - np - nc) }
        : nc \in 1..(max_rows - np - 1) }
        : np \in 1..(max_rows - 2) }

\* shp with the file of key k not existing, or read as an empty table
Without(shp, k) == [j \in DOMAIN shp \ {k} |-> shp[j]]
Emptied(shp, k) == [shp EXCEPT ![k] = <<>>]

SampleShpData ==
    ShpData(CountryTable, ProvinceTable(<< <<"x", "shi">> >>),
            CityTable(<< << <<"x", "shi">>, 1 >> >>),
            DistrictTable(<< << <<"x", "shi">>, 1 >> >>))

DeficientShpData ==
    {Without(SampleShpData, k) : k \in DOMAIN SampleShpData}
    \cup {Emptied(SampleShpData, k) : k \in DOMAIN SampleShpData}
    \cup {Without(Emptied(SampleShpData, "city"), "district"), <<>>}

(***************************************************************************)
(* main_data_processing, link_data and main as a state machine, from the   *)
(* return of parse_markdown on                                             *)
(***************************************************************************)
LinkHeadings ==
    { <<"H1", " ", "x", "sheng", "\n">>,
      <<"H2", " ", "x", "\n">>,
      <<"H3", " ", "x", "qu", "\n">> }

\* headings in an order in which each one is honoured
WellFormed(hs) ==
    /\ hs # <<>> => hs[1][1] = "H1"
    /\ \A i \in 2..Len(hs) : hs[i][1] = "H3" => hs[i - 1][1] \in {"H2", "H3"}

\* the file: every heading followed by a line of text
RECURSIVE WithText(_)
WithText(hs) ==
    IF hs = <<>> THEN <<>>
    ELSE <<Head(hs), <<"t", "\n">> >> \o WithText(Tail(hs))

\* the files of at most n headings
LinkDocs(n) ==
    {WithText(hs) : hs \in {h \in SeqsUpTo(LinkHeadings, n) : WellFormed(h)}}

InitLink ==
    /\ pc = "parsed"
    /\ f \in LinkDocs(MaxLinkHeadings)
    /\ LET s == parse_state(f)
       IN  /\ nodes = s.nodes
           /\ processed_data = s.processed_data
           /\ current_province = s.current_province
           /\ current_city = s.current_city
           /\ current_district = s.current_district
           /\ active_entity = s.active_entity
           /\ active_field = s.active_field
           /\ current_text_buffer = s.current_text_buffer
           /\ parsed_md = s.processed_data
    /\ shp_data = <<>>
    /\ li = 0 /\ lj = 0 /\ lk = 0
    /\ returned = <<>>
    /\ main_processed_data = [none |-> TRUE, list |-> <<>>]
    /\ data_store = <<>>
    /\ NormIdle

\* lines 248-250: if not parsed_md: return None
MainNoData ==
    /\ pc = "parsed"
    /\ parsed_md = <<>>
    /\ main_processed_data' = [none |-> TRUE, list |-> <<>>]
    /\ pc' = "main_returned"
    /\ UNCHANGED <<parseVars, normVars, shp_data, li, lj, lk, parsed_md,
                   returned, data_store>>

\* load_shapefiles: each file that exists is read
LoadShapefiles ==
    /\ pc = "parsed"
    /\ shp_data' \in CompleteShpData(MaxRows) \cup DeficientShpData
    /\ pc' = "loaded"
    /\ UNCHANGED <<parseVars, normVars, li, lj, lk, parsed_md, returned,
                   main_processed_data, data_store>>

\* lines 254-255
required_shp_keys == {"country", "province", "city", "district"}

missing_keys(shp) ==
    {key \in required_shp_keys : key \notin DOMAIN shp \/ empty(shp[key])}

\* lines 256-258: main_data_processing returns None before calling link_data
MainMissingKeys ==
    /\ pc = "loaded"
    /\ parsed_md # <<>>
    /\ missing_keys(shp_data) # {}
    /\ main_processed_data' = [none |-> TRUE, list |-> <<>>]
    /\ pc' = "main_returned"
    /\ UNCHANGED <<parseVars, normVars, shp_data, li, lj, lk, parsed_md,
                   returned, data_store>>

\* link_data is called (by main_data_processing at line 260 when no key is
\* missing, or on its own): lines 190-192, the call returns md_data at once
LinkAbort ==
    /\ pc = "loaded"
    /\ parsed_md = <<>> \/ ~essential_shp_loaded_and_not_empty(shp_data)
    /\ returned' = parsed_md
    /\ pc' = "link_returned"
    /\ UNCHANGED <<parseVars, normVars, shp_data, li, lj, lk, parsed_md,
                   main_processed_data, data_store>>

\* lines 193-199: the precondition passes and the loop starts
LinkStart ==
    /\ pc = "loaded"
    /\ ~(parsed_md = <<>> \/ ~essential_shp_loaded_and_not_empty(shp_data))
    /\ li' = 1 /\ lj' = 0 /\ lk' = 0
    /\ pc' = "linking"
    /\ UNCHANGED <<parseVars, normVars, shp_data, parsed_md, returned,
                   main_processed_data, data_store>>

\* lines 199-210: the body of the outer loop for province li
LinkProvince ==
    /\ pc = "linking"
    /\ li <= Len(parsed_md) /\ lj = 0
    /\ LET p == province_md
           matched == matched_prov_shp(nodes, shp_data, p)
           found == "pr_name" \in columns(shp_data["province"]) /\ ~empty(matched)
       IN  /\ nodes' = IF found
                       THEN assign(nodes, p, iloc_0(matched), "pr_adcode")
                       ELSE nodes
           /\ IF found /\ get_children(nodes[p]) # <<>>
              THEN li' = li /\ lj' = 1 /\ lk' = 0
              ELSE li' = li + 1 /\ lj' = 0 /\ lk' = 0
    /\ UNCHANGED <<pc, f, processed_data, current_province, current_city,
                   current_district, active_entity, active_field,
                   current_text_buffer, normVars, shp_data, parsed_md, returned,
                   main_processed_data, data_store>>

\* lines 212-224: the body of the middle loop for city lj of province li
LinkCity ==
    /\ pc = "linking"
    /\ li <= Len(parsed_md) /\ lj >= 1 /\ lk = 0
    /\ LET p == province_md
           c == city_md
           matched == matched_city_shp(nodes, shp_data, p, c)
           found == /\ {"ct_name", "pr_adcode"} \subseteq columns(shp_data["city"])
                    /\ ~empty(matched)
       IN  /\ nodes' = IF found
                       THEN assign(nodes, c, iloc_0(matched), "ct_adcode")
                       ELSE nodes
           /\ IF found /\ get_children(nodes[c]) # <<>>
              THEN li' = li /\ lj' = lj /\ lk' = 1
              ELSE NextCity
    /\ UNCHANGED <<pc, f, processed_data, current_province, current_city,
                   current_district, active_entity, active_field,
                   current_text_buffer, normVars, shp_data, parsed_md, returned,
                   main_processed_data, data_store>>

\* lines 226-238: the body of the inner loop for district lk of city lj
LinkDistrict ==
    /\ pc = "linking"
    /\ li <= Len(parsed_md) /\ lj >= 1 /\ lk >= 1
    /\ LET c == city_md
           d == district_md
           matched == matched_district_shp(nodes, shp_data, c, d)
           found == /\ {"dt_name", "ct_adcode"} \subseteq columns(shp_data["district"])
                    /\ ~empty(matched)
       IN  /\ nodes' = IF found
                       THEN assign(nodes, d, iloc_0(matched), "dt_adcode")
                       ELSE nodes
           /\ NextDistrict
    /\ UNCHANGED <<pc, f, processed_data, current_province, current_city,
                   current_district, active_entity, active_field,
                   current_text_buffer, normVars, shp_data, parsed_md, returned,
                   main_processed_data, data_store>>

\* lines 240-241: the loop is over, return md_data
LinkReturn ==
    /\ pc = "linking"
    /\ li > Len(parsed_md)
    /\ returned' = parsed_md
    /\ pc' = "link_returned"
    /\ UNCHANGED <<parseVars, normVars, shp_data, li, lj, lk, parsed_md,
                   main_processed_data, data_store>>

\* lines 260-262: the call came from main_data_processing, which returns
\* what link_data returned
MainReturn ==
    /\ pc = "link_returned"
    /\ parsed_md # <<>>
    /\ missing_keys(shp_data) = {}
    /\ main_processed_data' = [none |-> FALSE, list |-> returned]
    /\ pc' = "main_returned"
    /\ UNCHANGED <<parseVars, normVars, shp_data, li, lj, lk, parsed_md,
                   returned, data_store>>

\* main, line 901, and MainWindow.__init__, line 582:
\* self.data_store = data_store if data_store else []
MainWindowInit ==
    /\ pc = "main_returned"
    /\ data_store' = IF ~main_processed_data.none /\ main_processed_data.list # <<>>
                     THEN main_processed_data.list
                     ELSE <<>>
    /\ pc' = "done"
    /\ UNCHANGED <<parseVars, normVars, shp_data, li, lj, lk, parsed_md,
                   returned, main_processed_data>>

NextLink ==
    \/ MainNoData
    \/ LoadShapefiles
    \/ MainMissingKeys
    \/ LinkAbort
    \/ LinkStart
    \/ LinkProvince
    \/ LinkCity
    \/ LinkDistrict
    \/ LinkReturn
    \/ MainReturn
    \/ MainWindowInit

SpecLink == InitLink /\ [][NextLink]_vars

(***************************************************************************)
(* The whole pipeline of main_data_processing as one state machine:        *)
(* parse_markdown line by line, then load_shapefiles, link_data and main   *)
(***************************************************************************)
\* the lines of the file: the three headings, in or out of scope, and text
PipelineLines == LinkHeadings \cup { <<"t", "\n">> }

\* one iteration of the for loop of parse_markdown
PipelineRead ==
    /\ pc = "read"
    /\ Len(f) < MaxLines
    /\ \E line_content \in PipelineLines :
          /\ SetParser(process_line(ParserState, line_content))
          /\ f' = Append(f, line_content)
    /\ UNCHANGED <<pc, linkVars, normVars>>

\* tables in which the second row of each table is the one that matches
TwoRowShpData ==
    ShpData(CountryTable,
            ProvinceTable(<< <<"x", "y">>, <<"x", "shi">> >>),
            CityTable(<< << <<"x", "shi">>, 1 >>, << <<"x", "shi">>, 2 >> >>),
            DistrictTable(<< << <<"x", "shi">>, 1 >>, << <<"x", "shi">>, 2 >> >>))

PipelineShpData ==
    {SampleShpData, TwoRowShpData, Emptied(SampleShpData, "city"),
     Without(SampleShpData, "district")}

\* load_shapefiles
PipelineLoad ==
    /\ pc = "parsed"
    /\ shp_data' \in PipelineShpData
    /\ pc' = "loaded"
    /\ UNCHANGED <<parseVars, normVars, li, lj, lk, parsed_md, returned,
                   main_processed_data, data_store>>

NextPipeline ==
    \/ OpenFile
    \/ FileNotFound
    \/ PipelineRead
    \/ EndOfFile
    \/ MainNoData
    \/ PipelineLoad
    \/ MainMissingKeys
    \/ LinkAbort
    \/ LinkStart
    \/ LinkProvince
    \/ LinkCity
    \/ LinkDistrict
    \/ LinkReturn
    \/ MainReturn
    \/ MainWindowInit

SpecPipeline == Init /\ [][NextPipeline]_vars

(***************************************************************************)
(* Claims about normalize_name (under SpecNorm)                            *)
(***************************************************************************)
Suffixes == {suffixes_to_remove[i] : i \in 1..Len(suffixes_to_remove)}

\* C4: for every known suffix s and every non-empty remainder r (written
\* without surrounding blanks), normalize_name(r + s) = r.
C4_RemovesExactlyTheSuffix ==
    Len(n_outs) >= 1 =>
        \A s \in Suffixes :
            (/\ endswith(n_name, s)
             /\ Len(n_name) > Len(s)
             /\ strip(n_name) = n_name)
            => n_outs[1] = SubSeq(n_name, 1, Len(n_name) - Len(s))

\* C5: for every known suffix s, normalize_name(s) = s.
C5_SuffixAloneUnchanged ==
    (Len(n_outs) >= 1 /\ n_name \in Suffixes) => n_outs[1] = n_name

\* C6: normalize_name is idempotent: normalizing its own output changes nothing.
C6_Idempotent ==
    Len(n_outs) = 2 => n_outs[2] = n_outs[1]

(***************************************************************************)
(* Claims about parse_markdown on the five-line files (under SpecE2E)      *)
(***************************************************************************)
\* a line without its terminator, and the title of a heading line
BodyOf(line_content) == SubSeq(line_content, 1, Len(line_content) - 1)
TitleOf(line_content) == SubSeq(line_content, 3, Len(line_content) - 1)

\* the forest the five-line file f is said to give, with the two texts
E2EForest(text_a, text_b) ==
    << [name |-> TitleOf(f[1]), level |-> 1, adcode |-> None,
        text_general |-> <<>>, text_detail |-> <<>>, geometry |-> None,
        children |-> <<2>>],
       [name |-> TitleOf(f[2]), level |-> 2, parent_name |-> TitleOf(f[1]),
        parent_adcode |-> None, adcode |-> None, text_general |-> <<>>,
        text_detail |-> text_a, geometry |-> None, children |-> <<3>>],
       [name |-> TitleOf(f[4]), level |-> 3, parent_name |-> TitleOf(f[2]),
        parent_adcode |-> None, adcode |-> None, text_general |-> <<>>,
        text_detail |-> text_b, geometry |-> None] >>

\* C1 as stated: the file [heading T, heading M, a, heading B, b] parses into
\* T > M > B with M.text_detail = a and B.text_detail = b, the lines as read.
C1_TextIsTheLineAsRead ==
    (pc = "parsed" /\ Len(f) = 5) =>
        /\ parsed_md = <<1>>
        /\ nodes = E2EForest(BodyOf(f[3]), BodyOf(f[5]))

\* C1 amended: the same forest, with M.text_detail and B.text_detail equal to
\* a and b without their leading and trailing whitespace.
C1_TextIsTheTrimmedLine ==
    (pc = "parsed" /\ Len(f) = 5) =>
        /\ parsed_md = <<1>>
        /\ nodes = E2EForest(rstrip(lstrip(BodyOf(f[3]), {" "}), {" "}),
                             rstrip(lstrip(BodyOf(f[5]), {" "}), {" "}))

C1_Witness ==
    /\ pc = "parsed" /\ Len(f) = 5
    /\ Len(nodes) = 3
    /\ nodes[2].text_detail = <<"u">>
    /\ nodes[3].text_detail = <<"t", " ", "u">>
    /\ nodes[1].name = <<"x", " ", "x">>

(***************************************************************************)
(* Claims about the scanner (under Spec)                                   *)
(***************************************************************************)
\* the locals of parse_markdown after each prefix of f: element k + 1 is the
\* state after the first k lines
RECURSIVE StatesFrom(_, _)
StatesFrom(acc, lines) ==
    IF Len(acc) > Len(lines) THEN acc
    ELSE StatesFrom(Append(acc, process_line(acc[Len(acc)], lines[Len(acc)])), lines)

PrefixStates == StatesFrom(<<InitialParserState>>, f)

\* line k of f was honoured as a heading or marker
Honoured(ps, k) == Branch(ps[k], f[k]) \notin {"text", "blank"}

\* the buffer has just been flushed: by the heading or marker read last, or
\* by the end of the file
JustFlushed(ps) ==
    \/ pc = "parsed" /\ f # <<>>
    \/ pc = "read" /\ f # <<>> /\ Honoured(ps, Len(f))

\* the last line that went to the flushed buffer
LastBuffered == IF pc = "parsed" THEN Len(f) ELSE Len(f) - 1

\* the last heading or marker honoured among the first e lines (0: none)
RECURSIVE LastHonoured(_, _)
LastHonoured(ps, e) ==
    IF e = 0 THEN 0 ELSE IF Honoured(ps, e) THEN e ELSE LastHonoured(ps, e - 1)

\* the non-blank lines k+1..e of f, without their terminators
RECURSIVE NarrativeLines(_, _)
NarrativeLines(k, e) ==
    IF e <= k THEN <<>>
    ELSE LET body == SubSeq(f[e], 1, Len(f[e]) - 1)
         IN  IF \A i \in 1..Len(body) : body[i] = " "
             THEN NarrativeLines(k, e - 1)
             ELSE Append(NarrativeLines(k, e - 1), body)

\* lines joined by single newlines, in order
RECURSIVE JoinedByNewlines(_)
JoinedByNewlines(ls) ==
    IF ls = <<>> THEN <<>>
    ELSE IF Len(ls) = 1 THEN ls[1]
    ELSE JoinedByNewlines(SubSeq(ls, 1, Len(ls) - 1)) \o <<"\n">> \o ls[Len(ls)]

\* a text without its leading and trailing blanks and newlines
RECURSIVE Trimmed(_)
Trimmed(t) ==
    IF t = <<>> THEN t
    ELSE IF t[1] \in {" ", "\n"} THEN Trimmed(Tail(t))
    ELSE IF t[Len(t)] \in {" ", "\n"} THEN Trimmed(SubSeq(t, 1, Len(t) - 1))
    ELSE t

\* old text followed by a block, exactly one newline between them
AfterOneNewline(old, block) ==
    IF old = <<>> THEN block ELSE old \o <<"\n">> \o block

TextFields == {"text_general", "text_detail"}

Range(seq) == {seq[i] : i \in 1..Len(seq)}

\* C8: when the top-tier general marker is read while a mid-tier or bottom-tier
\* node is active, the narrative lines that follow it, up to the next honoured
\* heading or marker (or the end of the file), are appended to text_general of
\* the current top-tier node, and no text field of any other node changes.
C8_TopGeneralRedirectsToProvince ==
    LET ps == PrefixStates
    IN  ((\E i \in 1..Len(f) : "H2_0" \in Range(f[i])) /\ JustFlushed(ps)) =>
        LET e == LastBuffered
            k == LastHonoured(ps, e)
        IN  (/\ k >= 1
             /\ Branch(ps[k], f[k]) = "h1_general"
             /\ ps[k].active_entity # None
             /\ ps[k].nodes[ps[k].active_entity].level \in {2, 3})
            => LET A == ps[k + 1]
                   p == A.current_province
                   lines == NarrativeLines(k, e)
                   block == Trimmed(JoinedByNewlines(lines))
               IN  /\ nodes[p].text_general =
                         IF lines = <<>> THEN A.nodes[p].text_general
                         ELSE AfterOneNewline(A.nodes[p].text_general, block)
                   /\ nodes[p].text_detail = A.nodes[p].text_detail
                   /\ \A r \in 1..Len(A.nodes) : \A fld \in TextFields :
                         r # p => nodes[r][fld] = A.nodes[r][fld]

\* the marker is read while the bottom-tier node is active; a line follows
C8_Witness ==
    /\ pc = "parsed" /\ Len(f) = 5
    /\ LET ps == PrefixStates
       IN  /\ LastHonoured(ps, 5) = 4
           /\ Branch(ps[4], f[4]) = "h1_general"
           /\ ps[4].active_entity = 3
           /\ ps[4].nodes[3].level = 3
    /\ nodes[1].text_general = <<"u">>

LinkOver ==
    \/ pc = "link_returned"
    \/ pc \in {"main_returned", "done"} /\ ~main_processed_data.none

\* the three tables link_data needs are present and hold rows
ThreeTablesUsable ==
    \A k \in {"province", "city", "district"} :
        k \in DOMAIN shp_data /\ Len(shp_data[k]) > 0

\* the forest parse_markdown returned for the file f, before any linking
ParsedNodes == parse_state(f).nodes

\* the references in a children list
ChildrenOf(n) ==
    IF "children" \in DOMAIN nodes[n]
    THEN {nodes[n].children[i] : i \in 1..Len(nodes[n].children)}
    ELSE {}

Roots == {parsed_md[i] : i \in 1..Len(parsed_md)}

\* C2: after link, a level-2 node that has an identifier has the identifier
\* and geometry of a mid-tier row whose parent identifier is the identifier of
\* the node's level-1 parent, and a linked level-3 node those of a bottom-tier
\* row whose parent identifier is the identifier of its level-2 parent.
C2_LinkedUnderParent ==
    LinkOver =>
        \A p \in Roots : \A c \in ChildrenOf(p) :
            /\ nodes[c].adcode # None =>
                  \E i \in 1..Len(shp_data["city"]) :
                      LET row == shp_data["city"][i]
                      IN  /\ row.ct_adcode = nodes[c].adcode
                          /\ row.geometry = nodes[c].geometry
                          /\ row.pr_adcode = nodes[p].adcode
            /\ \A d \in ChildrenOf(c) :
                  nodes[d].adcode # None =>
                      \E i \in 1..Len(shp_data["district"]) :
                          LET row == shp_data["district"][i]
                          IN  /\ row.dt_adcode = nodes[d].adcode
                              /\ row.geometry = nodes[d].geometry
                              /\ row.ct_adcode = nodes[c].adcode

\* two mid-tier rows of the same name under different parents, the first one
\* under another parent: the node is linked to the second
C2_Witness ==
    /\ LinkOver /\ ThreeTablesUsable
    /\ Len(shp_data["city"]) = 2
    /\ shp_data["city"][1].ct_name = shp_data["city"][2].ct_name
    /\ shp_data["city"][1].pr_adcode # shp_data["city"][2].pr_adcode
    /\ \E p \in Roots : \E c \in ChildrenOf(p) :
          /\ nodes[c].adcode = 2
          /\ nodes[p].adcode = shp_data["city"][2].pr_adcode

\* C3: if one of the three required tables is missing or empty, link returns
\* the forest it was given and every field of every node is as it was before
\* the call.
C3_AbortLeavesForestAsParsed ==
    (LinkOver /\ ~ThreeTablesUsable) =>
        /\ returned = parsed_md
        /\ nodes = ParsedNodes

\* the top-tier table is there and has a row for the first level-1 node, the
\* mid-tier table is empty
C3_Witness ==
    /\ pc = "link_returned"
    /\ "city" \in DOMAIN shp_data /\ shp_data["city"] = <<>>
    /\ "province" \in DOMAIN shp_data /\ Len(shp_data["province"]) > 0
    /\ Len(nodes) >= 2
    /\ normalize_name(shp_data["province"][1].pr_name) = normalize_name(nodes[1].name)
    /\ nodes[1].adcode = None

\* C7: when parsing gives a non-empty forest and a reference table is missing
\* or empty, the consumer (MainWindow) still gets the parsed forest, unmodified.
C7_ForestStillHandedOver ==
    (/\ pc = "done"
     /\ parsed_md # <<>>
     /\ \E k \in {"country", "province", "city", "district"} :
           k \notin DOMAIN shp_data \/ Len(shp_data[k]) = 0)
    => /\ data_store = parsed_md
       /\ nodes = ParsedNodes

\* the positions of the rows of table t, among those whose parent column
\* holds parent (any row when parent_column is ""), whose normalized name is
\* that of node n
Candidates(t, name_column, parent_column, parent, n) ==
    {i \in 1..Len(t) :
        /\ parent_column # "" => t[i][parent_column] = parent
        /\ normalize_name(t[i][name_column]) = normalize_name(nodes[n].name)}

\* node n has the identifier and geometry of the first of the rows cand
HasFirstOf(t, cand, adcode_column, n) ==
    LET first == CHOOSE i \in cand : \A j \in cand : i <= j
    IN  /\ nodes[n].adcode = t[first][adcode_column]
        /\ nodes[n].geometry = t[first].geometry

\* C10: when several rows of the candidate subset (the whole top-tier table
\* for level 1, the rows under the parent's identifier for levels 2 and 3)
\* have the node's normalized name, the node gets the identifier and the
\* geometry of the first of them in table order.
C10_FirstCandidateWins ==
    (LinkOver /\ ThreeTablesUsable) =>
        \A p \in Roots :
            /\ LET cand == Candidates(shp_data["province"], "pr_name", "", None, p)
               IN  Cardinality(cand) >= 2 =>
                       HasFirstOf(shp_data["province"], cand, "pr_adcode", p)
            /\ \A c \in ChildrenOf(p) :
                  /\ LET cand == Candidates(shp_data["city"], "ct_name",
                                            "pr_adcode", nodes[p].adcode, c)
                     IN  Cardinality(cand) >= 2 =>
                             HasFirstOf(shp_data["city"], cand, "ct_adcode", c)
                  /\ \A d \in ChildrenOf(c) :
                        LET cand == Candidates(shp_data["district"], "dt_name",
                                               "ct_adcode", nodes[c].adcode, d)
                        IN  Cardinality(cand) >= 2 =>
                                HasFirstOf(shp_data["district"], cand, "dt_adcode", d)

\* a level-3 node with two candidate rows under its parent's identifier
C10_Witness ==
    /\ LinkOver /\ ThreeTablesUsable
    /\ \E p \in Roots : \E c \in ChildrenOf(p) : \E d \in ChildrenOf(c) :
          /\ Cardinality(Candidates(shp_data["district"], "dt_name",
                                    "ct_adcode", nodes[c].adcode, d)) = 2
          /\ nodes[d].adcode = 1
          /\ nodes[d].geometry = shp_data["district"][1].geometry

\* some row of table t, among those whose parent column holds parent (any row
\* when parent_column is ""), has the normalized name of node n
HasMatchingRow(t, name_column, parent_column, parent, n) ==
    Candidates(t, name_column, parent_column, parent, n) # {}

\* C11: when the three required tables are present and non-empty, after link a
\* level-1 node has an identifier iff some top-tier row has its normalized
\* name; a level-2 (level-3) node has one iff its parent has one and some
\* mid-tier (bottom-tier) row has the parent's identifier in its parent column
\* and the node's normalized name.
C11_LinkedIffMatchingRow ==
    (LinkOver /\ ThreeTablesUsable) =>
        \A p \in Roots :
            /\ nodes[p].adcode # None <=>
                  HasMatchingRow(shp_data["province"], "pr_name", "", None, p)
            /\ \A c \in ChildrenOf(p) :
                  /\ nodes[c].adcode # None <=>
                        /\ nodes[p].adcode # None
                        /\ HasMatchingRow(shp_data["city"], "ct_name", "pr_adcode",
                                          nodes[p].adcode, c)
                  /\ \A d \in ChildrenOf(c) :
                        nodes[d].adcode # None <=>
                            /\ nodes[c].adcode # None
                            /\ HasMatchingRow(shp_data["district"], "dt_name",
                                              "ct_adcode", nodes[c].adcode, d)

\* a linked level-1 node whose child stays unlinked although a mid-tier row
\* under the parent's identifier has a name that begins like the child's
C11_Witness ==
    /\ LinkOver /\ ThreeTablesUsable
    /\ \E p \in Roots : \E c \in ChildrenOf(p) :
          /\ nodes[p].adcode # None
          /\ nodes[c].adcode = None
          /\ \E i \in 1..Len(shp_data["city"]) :
                /\ shp_data["city"][i].pr_adcode = nodes[p].adcode
                /\ shp_data["city"][i].ct_name = <<"x", "y">>

\* C12: after link, a level-2 node with an identifier has a level-1 parent
\* with an identifier, and a level-3 node with an identifier has a level-2
\* parent and a level-1 grandparent with identifiers.
C12_LinkedOnlyUnderLinked ==
    LinkOver =>
        \A p \in Roots : \A c \in ChildrenOf(p) :
            /\ nodes[c].adcode # None => nodes[p].adcode # None
            /\ \A d \in ChildrenOf(c) :
                  nodes[d].adcode # None =>
                      nodes[c].adcode # None /\ nodes[p].adcode # None

\* a level-1 node without a matching row, whose child and grandchild have
\* rows of their names in the mid-tier and bottom-tier tables: none is linked
C12_Witness ==
    /\ LinkOver /\ ThreeTablesUsable
    /\ \E p \in Roots : \E c \in ChildrenOf(p) : \E d \in ChildrenOf(c) :
          /\ nodes[p].adcode = None /\ nodes[c].adcode = None
          /\ nodes[d].adcode = None
          /\ HasMatchingRow(shp_data["city"], "ct_name", "", None, c)
          /\ HasMatchingRow(shp_data["district"], "dt_name", "", None, d)

(***************************************************************************)
(* Further claims about the scanner (under Spec)                           *)
(***************************************************************************)
\* line_content has the form of a top-tier heading
IsTopTierHeading(line_content) == H1_MD_PATTERN(strip(line_content))

\* no line of f is a top-tier heading
NoTopTierHeading == \A i \in 1..Len(f) : ~IsTopTierHeading(f[i])

\* C13: while the lines read hold no top-tier heading, no node exists, the
\* forest is empty, and every non-blank line read (mid-tier and bottom-tier
\* headings and general markers included) is in the text buffer like
\* ordinary text; the forest returned for such an input is empty.
C13_NoTopTierHeadingNoNode ==
    (pc \in {"read", "parsed"} /\ NoTopTierHeading) =>
        /\ nodes = <<>>
        /\ processed_data = <<>>
        /\ current_text_buffer = NarrativeLines(0, Len(f))
        /\ pc = "parsed" => parsed_md = <<>>

\* a mid-tier heading, a general marker and a bottom-tier heading were read,
\* no top-tier heading, and the parser has returned
C13_Witness ==
    /\ pc = "parsed"
    /\ NoTopTierHeading
    /\ \E i, j, k \in 1..Len(f) :
          /\ H2_MD_PATTERN(strip(f[i]))
          /\ H3_MD_PATTERN(strip(f[j]))
          /\ H2_SPECIAL_ZERO_PATTERN(strip(f[k]))
    /\ parsed_md = <<>>

(***************************************************************************)
(* Claims about the forest through the whole pipeline (under SpecPipeline) *)
(***************************************************************************)
\* the sequences that hold references to nodes: number 0 is the forest,
\* number m >= 1 the children of node m
RefSeq(m) == IF m = 0 THEN processed_data ELSE get_children(nodes[m])

\* the places (sequence, position) at which node n is referred to
Places(n) ==
    {pl \in UNION {{<<m, i>> : i \in 1..Len(RefSeq(m))} : m \in 0..Len(nodes)} :
        RefSeq(pl[1])[pl[2]] = n}

HasParentFields(node) ==
    "parent_name" \in DOMAIN node \/ "parent_adcode" \in DOMAIN node

\* C14: in every state of parsing and of linking the forest is a tree of
\* depth at most 3: roots have level 1 and no parent fields; the children of
\* a level-1 (level-2) node have level 2 (level 3) and its name as
\* parent_name; level-3 nodes have no children; every node is referred to
\* from exactly one place, the forest or one children sequence.
C14_ForestIsTreeOfDepth3 ==
    /\ \A i \in 1..Len(processed_data) :
          /\ nodes[processed_data[i]].level = 1
          /\ ~HasParentFields(nodes[processed_data[i]])
    /\ \A n \in 1..Len(nodes) :
          /\ nodes[n].level \in {1, 2, 3}
          /\ nodes[n].level = 3 => "children" \notin DOMAIN nodes[n]
          /\ nodes[n].level \in {1, 2} =>
                \A i \in 1..Len(get_children(nodes[n])) :
                    LET c == nodes[get_children(nodes[n])[i]]
                    IN  /\ c.level = nodes[n].level + 1
                        /\ c.parent_name = nodes[n].name
          /\ Cardinality(Places(n)) = 1

\* two roots, the first with a child and a grandchild, after a link that
\* gave the grandchild an identifier
C14_Witness ==
    /\ pc = "done"
    /\ Len(processed_data) = 2
    /\ \E d \in 1..Len(nodes) :
          /\ nodes[d].level = 3
          /\ nodes[d].adcode # None
          /\ nodes[d].parent_name = <<"x">>

(***************************************************************************)
(* Claims about the steps of the scanner (under Spec)                      *)
(***************************************************************************)
\* sequence number m (0: the forest, m >= 1: the children of node m) in the
\* heap nd with the forest pd; empty for a node that does not exist
RefSeqIn(nd, pd, m) ==
    IF m = 0 THEN pd
    ELSE IF m \in DOMAIN nd THEN get_children(nd[m]) ELSE <<>>

IsPrefix(a, b) == Len(a) <= Len(b) /\ SubSeq(b, 1, Len(a)) = a

\* the step reads a line that is honoured as a heading creating a node
CreatesNode ==
    /\ f' # f
    /\ Branch(ParserState, f'[Len(f')]) \in {"h1", "h2", "h3"}

\* what one step may do to the forest and to the children sequences
C15_Step ==
    LET new == Len(nodes) + 1
        Before(m) == RefSeqIn(nodes, processed_data, m)
        After(m) == RefSeqIn(nodes', processed_data', m)
        Grown == {m \in 0..Len(nodes') : After(m) # Before(m)}
    IN  /\ \A m \in 0..Len(nodes) : IsPrefix(Before(m), After(m))
        /\ IF CreatesNode
           THEN /\ Len(nodes') = new
                /\ \E m \in 0..Len(nodes) :
                      /\ Grown = {m}
                      /\ After(m) = Append(Before(m), new)
                      /\ nodes'[new].level = IF m = 0 THEN 1 ELSE nodes[m].level + 1
           ELSE /\ Len(nodes') = Len(nodes)
                /\ Grown = {}

\* C15: a step of parsing creates a node iff it reads an honoured heading, and
\* then exactly one; the forest and every children sequence is its previous
\* value, extended at the end by the new node in exactly one of them (the
\* forest for a top-tier heading, the children of a node one level up
\* otherwise); no other sequence changes.
C15_NodesOnlyAppended == [][C15_Step]_vars

\* a node was appended to children that already held one, after a grandchild
\* had been created in between
C15_Witness ==
    /\ pc = "read"
    /\ Len(nodes) = 4
    /\ processed_data = <<1>>
    /\ nodes[1].children = <<2, 4>>
    /\ nodes[2].children = <<3>>

\* what one step may do to the text fields of the nodes that exist
C16_Step ==
    \A n \in 1..Len(nodes) : \A fld \in TextFields :
        /\ n \in DOMAIN nodes'
        /\ IsPrefix(nodes[n][fld], nodes'[n][fld])
        /\ nodes[n][fld] # <<>> => nodes'[n][fld] # <<>>

\* C16: across every step of parsing the text_general and text_detail of
\* every node only grow: the value before the step is a prefix of the value
\* after it (so the value at any earlier step is a prefix of the value at any
\* later one), and a non-empty field does not become empty.
C16_TextOnlyGrows == [][C16_Step]_vars

\* a field that was flushed into twice
C16_Witness ==
    /\ pc = "parsed"
    /\ Len(nodes) >= 1
    /\ nodes[1].text_general = <<"t", "\n", "t">>
    /\ nodes[1].text_detail = <<>>

(***************************************************************************)
(* Further claims about link_data (under SpecLink)                         *)
(***************************************************************************)
\* a node without what link_data may write
WithoutLink(node) == [node EXCEPT !.adcode = None, !.geometry = None]

\* what one step of the call may change
C17_Step ==
    /\ DOMAIN nodes' = DOMAIN nodes
    /\ \A n \in DOMAIN nodes : WithoutLink(nodes'[n]) = WithoutLink(nodes[n])
    /\ parsed_md' = parsed_md
    /\ pc # "parsed" => shp_data' = shp_data
    /\ (pc \in {"loaded", "linking"} /\ pc' = "link_returned") => returned' = parsed_md

\* C17: from the call of link to its return no step changes the set of
\* nodes or any field of a node other than identifier and geometry (names,
\* levels, parent fields, text fields and children sequences stay as
\* parsed), the forest returned is the forest passed in, and the reference
\* tables stay as loaded.
C17_LinkWritesOnlyIdAndGeometry == [][C17_Step]_vars

\* link has returned after giving identifiers to a node that has text and a
\* child, and to the child
C17_Witness ==
    /\ pc = "link_returned" /\ ThreeTablesUsable
    /\ returned = parsed_md
    /\ \E p \in Roots : \E c \in ChildrenOf(p) :
          /\ nodes[p].adcode # None /\ nodes[p].geometry # None
          /\ nodes[p].text_detail = <<"t">>
          /\ nodes[c].adcode # None
          /\ nodes[c].parent_adcode = None

\* the nodes of the branch of root p
BranchNodes(p) ==
    {p} \cup ChildrenOf(p) \cup UNION {ChildrenOf(c) : c \in ChildrenOf(p)}

\* link_data on a forest that holds the branch of p only: the districts of
\* city c from number k on, the cities of p from number j on, the branch
RECURSIVE LinkDistrictsFrom(_, _, _, _)
LinkDistrictsFrom(nd, shp, c, k) ==
    IF k > Len(get_children(nd[c])) THEN nd
    ELSE LET d == get_children(nd[c])[k]
             matched == matched_district_shp(nd, shp, c, d)
             nd1 == IF empty(matched) THEN nd
                    ELSE assign(nd, d, iloc_0(matched), "dt_adcode")
         IN  LinkDistrictsFrom(nd1, shp, c, k + 1)

RECURSIVE LinkCitiesFrom(_, _, _, _)
LinkCitiesFrom(nd, shp, p, j) ==
    IF j > Len(get_children(nd[p])) THEN nd
    ELSE LET c == get_children(nd[p])[j]
             matched == matched_city_shp(nd, shp, p, c)
             nd1 == IF empty(matched) THEN nd
                    ELSE LinkDistrictsFrom(assign(nd, c, iloc_0(matched), "ct_adcode"),
                                           shp, c, 1)
         IN  LinkCitiesFrom(nd1, shp, p, j + 1)

LinkAlone(nd, shp, p) ==
    LET matched == matched_prov_shp(nd, shp, p)
    IN  IF empty(matched) THEN nd
        ELSE LinkCitiesFrom(assign(nd, p, iloc_0(matched), "pr_adcode"), shp, p, 1)

\* a step of the loop writes only to nodes of the branch it is in
C18_Step ==
    IF pc = "linking" /\ li <= Len(parsed_md)
    THEN \A n \in DOMAIN nodes :
            n \notin BranchNodes(parsed_md[li]) => nodes'[n] = nodes[n]
    ELSE nodes' = nodes

\* after link every branch is as link leaves it when run on that branch alone
C18_BranchesAsAlone ==
    (LinkOver /\ ThreeTablesUsable) =>
        \A p \in Roots :
            LET alone == LinkAlone(ParsedNodes, shp_data, p)
            IN  \A n \in BranchNodes(p) : nodes[n] = alone[n]

C19_UnsetWhileParsing ==
    pc \in {"open", "read", "parsed"} =>
        \A n \in DOMAIN nodes :
            nodes[n].adcode = None /\ nodes[n].geometry = None

\* a step changes identifier or geometry of a node only by setting both,
\* on a node that had neither
C19_Step ==
    \A n \in DOMAIN nodes :
        \/ /\ nodes'[n].adcode = nodes[n].adcode
           /\ nodes'[n].geometry = nodes[n].geometry
        \/ /\ nodes[n].adcode = None /\ nodes[n].geometry = None
           /\ nodes'[n].adcode # None /\ nodes'[n].geometry # None

\* C19: identifier and geometry of every node are unset throughout parsing;
\* during link a node's identifier and geometry are written at most once
\* (only while both are unset) and, once set, keep their values: they never
\* go back to unset.
C19_IdAndGeometryWriteOnce == []C19_UnsetWhileParsing /\ [][C19_Step]_vars

\* the pipeline is over; a root, its child and its grandchild each got the
\* identifier and geometry of the second row of their table
C19_Witness ==
    /\ pc = "done"
    /\ \E p \in Roots : \E c \in ChildrenOf(p) : \E d \in ChildrenOf(c) :
          /\ nodes[p].adcode = 2 /\ nodes[p].geometry = 102
          /\ nodes[c].adcode = 2 /\ nodes[c].geometry = 202
          /\ nodes[d].adcode = 2 /\ nodes[d].geometry = 302

(***************************************************************************)
(* The file of a single top-tier heading (under Spec)                      *)
(***************************************************************************)
\* the positions of the non-blank lines of f
NonBlank == {i \in 1..Len(f) : Trimmed(f[i]) # <<>>}

\* the title of a top-tier heading line: what follows the chapter token,
\* without surrounding blanks
HeadingTitle(line_content) == Trimmed(Tail(Trimmed(line_content)))

\* C20: when the only non-blank line of the input is a top-tier heading,
\* parse returns exactly one node: level 1, named by the heading's title,
\* text_general and text_detail empty, children empty, identifier and
\* geometry unset.
C20_SingleTopTierHeading ==
    (/\ pc = "parsed"
     /\ Cardinality(NonBlank) = 1
     /\ \A i \in NonBlank : IsTopTierHeading(f[i]))
    => /\ parsed_md = <<1>>
       /\ nodes = << [name |-> HeadingTitle(f[CHOOSE i \in NonBlank : TRUE]),
                      level |-> 1, adcode |-> None, text_general |-> <<>>,
                      text_detail |-> <<>>, geometry |-> None,
                      children |-> <<>>] >>

\* the heading stands between two blank lines
C20_Witness ==
    /\ pc = "parsed"
    /\ Len(f) = 3
    /\ NonBlank = {2}
    /\ IsTopTierHeading(f[2])
    /\ Len(nodes) = 1
    /\ nodes[1].name = <<"a">>

(***************************************************************************)
(* Where narrative lines are stored (under Spec)                           *)
(***************************************************************************)
\* the first line after line h that was honoured as a heading or marker
\* (Len(f) + 1: none)
RECURSIVE NextHonoured(_, _)
NextHonoured(ps, h) ==
    IF h >= Len(f) THEN Len(f) + 1
    ELSE IF Honoured(ps, h + 1) THEN h + 1
    ELSE NextHonoured(ps, h + 1)

\* the text of field fld of node n when every narrative line goes to the
\* field that was the active target when the line was read: acc is the text
\* from the lines before line h + 1, where h is 0 or an honoured line
RECURSIVE TextOfTarget(_, _, _, _, _)
TextOfTarget(ps, n, fld, h, acc) ==
    LET e == NextHonoured(ps, h) - 1
        block == Trimmed(JoinedByNewlines(NarrativeLines(h, e)))
        target == ps[h + 1]
        acc1 == IF /\ target.active_entity = n
                   /\ target.active_field = fld
                   /\ block # <<>>
                THEN AfterOneNewline(acc, block)
                ELSE acc
    IN  IF e >= Len(f) THEN acc1 ELSE TextOfTarget(ps, n, fld, e + 1, acc1)

\* C21: when parse returns, each text field of each node holds exactly the
\* narrative lines that were read while that node and field were the active
\* target; lines read while no node was active (before the first top-tier
\* heading) are in no field.
C21_StoredOnlyInActiveTarget ==
    pc = "parsed" =>
        LET ps == PrefixStates
        IN  \A n \in 1..Len(nodes) : \A fld \in TextFields :
                nodes[n][fld] = TextOfTarget(ps, n, fld, 0, <<>>)

(***************************************************************************)
(* The context the headings and markers keep or forget (under Spec)        *)
(***************************************************************************)
\* the forms of a line, read off the line alone
IsMidTierHeading(line_content) == H2_MD_PATTERN(strip(line_content))
IsTopGeneralMarker(line_content) == H2_SPECIAL_ZERO_PATTERN(strip(line_content))
IsBottomTierHeading(line_content) == H3_MD_PATTERN(strip(line_content))
IsMidGeneralMarker(line_content) == H3_SPECIAL_ZERO_PATTERN(strip(line_content))

\* the positions of the top-tier and mid-tier headings read so far, and the
\* last of them (0: none)
TopAndMidHeadings ==
    {i \in 1..Len(f) : IsTopTierHeading(f[i]) \/ IsMidTierHeading(f[i])}

LastTopOrMid ==
    IF TopAndMidHeadings = {} THEN 0
    ELSE CHOOSE i \in TopAndMidHeadings : \A j \in TopAndMidHeadings : j <= i

\* a top-tier heading was read and no mid-tier heading since
AfterTopBeforeMid == LastTopOrMid # 0 /\ IsTopTierHeading(f[LastTopOrMid])

\* the step reads line_content
Reads(line_content) == f' = Append(f, line_content)

LastRoot == processed_data[Len(processed_data)]

\* what a step may do after a top-tier heading and before the next mid-tier
\* heading, and where a step may put a new level-3 node
C22_Step ==
    /\ \A line_content \in Lines :
          (/\ Reads(line_content)
           /\ AfterTopBeforeMid
           /\ IsBottomTierHeading(line_content) \/ IsMidGeneralMarker(line_content))
          => /\ nodes' = nodes
             /\ processed_data' = processed_data
             /\ active_entity' = active_entity /\ active_field' = active_field
             /\ active_entity = LastRoot
             /\ current_text_buffer' = Append(current_text_buffer, BodyOf(line_content))
    /\ (Len(nodes') = Len(nodes) + 1 /\ nodes'[Len(nodes')].level = 3)
          => \E c \in 1..Len(nodes) :
                /\ nodes[c].level = 2
                /\ \E i \in 1..Len(nodes[LastRoot].children) :
                      nodes[LastRoot].children[i] = c
                /\ nodes'[c].children = Append(nodes[c].children, Len(nodes'))

\* C22: a bottom-tier heading or mid-tier general marker read after a
\* top-tier heading and before the next mid-tier heading creates no node,
\* changes neither the active node nor its target field, and is buffered as
\* text while the new level-1 node is the active node; every level-3 node is
\* created as a child of a level-2 node of the most recent level-1 node.
C22_TopTierHeadingForgetsContext == [][C22_Step]_vars

\* a second top-tier heading after a mid-tier one, then a bottom-tier heading:
\* three nodes, the heading in the buffer
C22_Witness ==
    /\ pc = "read"
    /\ Len(f) = 4
    /\ IsMidTierHeading(f[2]) /\ IsTopTierHeading(f[3]) /\ IsBottomTierHeading(f[4])
    /\ Len(nodes) = 3
    /\ active_entity = 3 /\ nodes[3].level = 1
    /\ current_text_buffer = << <<"H3", " ", "c">> >>

\* the level-2 node created last (0: none)
LastMid ==
    LET mids == {n \in 1..Len(nodes) : nodes[n].level = 2}
    IN  IF mids = {} THEN 0 ELSE CHOOSE n \in mids : \A m \in mids : m <= n

\* a mid-tier node is in scope: a mid-tier heading was honoured after the
\* last top-tier heading
MidInScope ==
    /\ LastTopOrMid # 0
    /\ IsMidTierHeading(f[LastTopOrMid])
    /\ \E i \in 1..LastTopOrMid : IsTopTierHeading(f[i])

\* the text fields of the nodes other than field fld of node n stay as they are
OtherTextsUnchanged(n, fld) ==
    \A m \in 1..Len(nodes) : \A g \in TextFields :
        <<m, g>> # <<n, fld>> => nodes'[m][g] = nodes[m][g]

\* the mid-tier general marker makes the mid-tier node in scope the target,
\* with text_general; while a level-2 node is the target with text_general a
\* line of text is only buffered and the target stays, and a flush stores the
\* buffer in that field and nowhere else
C23_Step ==
    /\ \A line_content \in Lines :
          (Reads(line_content) /\ MidInScope /\ IsMidGeneralMarker(line_content))
          => /\ active_entity' = LastMid
             /\ active_field' = "text_general"
             /\ current_text_buffer' = <<>>
    /\ (/\ active_entity # None
        /\ nodes[active_entity].level = 2
        /\ active_field = "text_general")
       => LET c == active_entity
              block == Trimmed(JoinedByNewlines(current_text_buffer))
          IN  IF current_text_buffer' = <<>>
              THEN /\ nodes'[c].text_general =
                         IF block = <<>> THEN nodes[c].text_general
                         ELSE AfterOneNewline(nodes[c].text_general, block)
                   /\ OtherTextsUnchanged(c, "text_general")
              ELSE /\ nodes' = nodes
                   /\ active_entity' = c /\ active_field' = "text_general"
                   /\ \/ current_text_buffer' = current_text_buffer
                      \/ \E line_content \in Lines :
                            /\ Reads(line_content)
                            /\ current_text_buffer' =
                                  Append(current_text_buffer, BodyOf(line_content))

\* C23: a mid-tier general marker read while a mid-tier node is in scope,
\* also when one of its bottom-tier children is the active node, makes that
\* mid-tier node the active node with target text_general; the narrative
\* lines that follow are appended to the text_general of the mid-tier node
\* and to no field of the bottom-tier node.
C23_MidGeneralRedirectsToMid == [][C23_Step]_vars

\* the marker is read while the bottom-tier node is active; the line after it
\* is in text_general of the mid-tier node
C23_Witness ==
    /\ pc = "parsed" /\ Len(f) = 5
    /\ IsBottomTierHeading(f[3]) /\ IsMidGeneralMarker(f[4])
    /\ Len(nodes) = 3
    /\ nodes[2].text_general = <<"u">>
    /\ nodes[3].text_general = <<>> /\ nodes[3].text_detail = <<>>

(***************************************************************************)
(* The parent identifier through the whole pipeline (under SpecPipeline)   *)
(***************************************************************************)
\* C24: the parent_adcode of every level-2 and level-3 node is the value
\* copied at creation from its parent, whose identifier is unset during
\* parsing: it is unset in every state of parsing and of linking, also after
\* link has given the parent an identifier.
C24_ParentIdentifierStaysUnset ==
    \A n \in 1..Len(nodes) :
        nodes[n].level \in {2, 3} =>
            /\ "parent_adcode" \in DOMAIN nodes[n]
            /\ nodes[n].parent_adcode = None

\* the pipeline is over and a level-2 node and its level-3 child still have
\* no parent identifier although their parents were linked
C24_Witness ==
    /\ pc = "done"
    /\ \E p \in Roots : \E c \in ChildrenOf(p) : \E d \in ChildrenOf(c) :
          /\ nodes[p].adcode # None /\ nodes[c].parent_adcode = None
          /\ nodes[c].adcode # None /\ nodes[d].parent_adcode = None

(***************************************************************************)
(* The end of the input and blank lines (under Spec)                       *)
(***************************************************************************)
\* the sequence a ends the sequence b
IsSuffix(a, b) == Len(a) <= Len(b) /\ SubSeq(b, Len(b) - Len(a) + 1, Len(b)) = a

\* the step in which parse_markdown reaches the end of the input
AtEndOfInput == pc = "read" /\ pc' = "parsed"

\* what the end of the input does when a node is active
C25_Step ==
    (AtEndOfInput /\ active_entity # None) =>
        LET ps == PrefixStates
            k == LastHonoured(ps, Len(f))
            lines == NarrativeLines(k, Len(f))
            n == active_entity
            fld == active_field
            block == Trimmed(JoinedByNewlines(current_text_buffer))
        IN  /\ k >= 1
            /\ n = ps[k + 1].active_entity /\ fld = ps[k + 1].active_field
            /\ IsSuffix(lines, current_text_buffer)
            /\ nodes'[n][fld] =
                  IF block = <<>> THEN nodes[n][fld]
                  ELSE AfterOneNewline(nodes[n][fld], block)
            /\ OtherTextsUnchanged(n, fld)
            /\ current_text_buffer' = <<>>
            /\ parsed_md' = processed_data'

\* C25: when the end of the input is reached with an active node, the
\* pending buffer, which ends with the narrative lines read after the last
\* honoured heading or marker, is stored in the target field of the node that
\* heading or marker made active, and the buffer is empty when the forest is
\* returned.
C25_FinalFlushCommitsBuffer == [][C25_Step]_vars

\* two lines after the last heading, committed at the end of the input
C25_Witness ==
    /\ pc = "parsed" /\ Len(f) = 4
    /\ IsMidTierHeading(f[2])
    /\ Len(nodes) = 2
    /\ nodes[2].text_detail = <<"t", "\n", " ", "u">>
    /\ current_text_buffer = <<>>

\* line_content is empty or holds blanks only
IsBlank(line_content) == Trimmed(line_content) = <<>>

\* the file without its blank lines
RECURSIVE WithoutBlankLines(_)
WithoutBlankLines(lines) ==
    IF lines = <<>> THEN <<>>
    ELSE IF IsBlank(Head(lines)) THEN WithoutBlankLines(Tail(lines))
    ELSE <<Head(lines)>> \o WithoutBlankLines(Tail(lines))

\* reading a blank line changes no local of the parser, and the forest
\* returned for f is the forest of f without its blank lines
C26_Step ==
    /\ \A line_content \in Lines :
          (Reads(line_content) /\ IsBlank(line_content)) => UNCHANGED ParserState
    /\ AtEndOfInput =>
          LET squeezed == parse_state(WithoutBlankLines(f))
          IN  /\ nodes' = squeezed.nodes
              /\ parsed_md' = squeezed.processed_data

\* C26: two inputs that differ only by blank (whitespace-only) lines, inserted
\* or deleted anywhere, give the same forest: the forest parse returns for an
\* input is the forest it returns for the input without its blank lines.
C26_BlankLinesDoNotMatter == [][C26_Step]_vars

\* a blank line between two narrative lines of the same block
C26_Witness ==
    /\ pc = "parsed" /\ Len(f) = 4
    /\ IsTopTierHeading(f[1]) /\ IsBlank(f[3])
    /\ Len(nodes) = 1
    /\ nodes[1].text_detail = <<"t", "\n", "t">>

(***************************************************************************)
(* The top-tier general marker and the mid-tier context (under Spec)       *)
(***************************************************************************)
\* a top-tier general marker was read after the last top-tier or mid-tier
\* heading
TopGeneralSinceLastHeading ==
    \E i \in (LastTopOrMid + 1)..Len(f) : IsTopGeneralMarker(f[i])

\* the top-tier general marker makes the top-tier node the target; after it,
\* with no top-tier or mid-tier heading in between, a bottom-tier heading
\* and a mid-tier general marker are honoured against the mid-tier node
C27_Step ==
    \A line_content \in Lines :
        Reads(line_content) =>
            /\ (IsTopGeneralMarker(line_content) /\ processed_data # <<>>)
                  => /\ active_entity' = LastRoot
                     /\ active_field' = "text_general"
                     /\ nodes' = flush_buffer(ParserState).nodes
            /\ (MidInScope /\ TopGeneralSinceLastHeading)
                  => /\ \E i \in 1..Len(nodes[LastRoot].children) :
                           nodes[LastRoot].children[i] = LastMid
                     /\ IsBottomTierHeading(line_content)
                           => LET new == Len(nodes) + 1
                              IN  /\ Len(nodes') = new
                                  /\ nodes'[new].level = 3
                                  /\ nodes'[new].parent_name = nodes[LastMid].name
                                  /\ nodes'[LastMid].children =
                                        Append(nodes[LastMid].children, new)
                                  /\ active_entity' = new
                                  /\ active_field' = "text_detail"
                     /\ IsMidGeneralMarker(line_content)
                           => /\ Len(nodes') = Len(nodes)
                              /\ active_entity' = LastMid
                              /\ active_field' = "text_general"

\* C27: the top-tier general marker makes the top-tier node the active node
\* and keeps the remembered mid-tier node: a bottom-tier heading read after
\* it, with no top-tier or mid-tier heading in between, creates a child of the
\* most recent mid-tier node of that top-tier node, and a mid-tier general
\* marker read after it makes that mid-tier node the active node.
C27_TopGeneralKeepsMidContext == [][C27_Step]_vars

\* a bottom-tier heading right after the top-tier general marker
C27_Witness ==
    /\ pc = "read" /\ Len(f) = 4
    /\ IsMidTierHeading(f[2]) /\ IsTopGeneralMarker(f[3])
    /\ IsBottomTierHeading(f[4])
    /\ Len(nodes) = 3
    /\ nodes[2].children = <<3>>
    /\ active_entity = 3

(***************************************************************************)
(* normalize_name and the empty key (under SpecNorm)                       *)
(***************************************************************************)
\* the argument of the i-th call: the name, then the previous result
NormInput(i) == IF i = 1 THEN n_name ELSE n_outs[i - 1]

\* C28: normalize_name never returns the empty string for a name whose
\* trimmed form is non-empty, whatever known suffixes the name ends with.
C28_NeverEmptyKey ==
    \A i \in 1..Len(n_outs) :
        strip(NormInput(i)) # <<>> => n_outs[i] # <<>>

\* a name made of suffixes only: the last one is removed, the first one stays
C28_Witness ==
    /\ n_name = <<"shi", "sheng">>
    /\ Len(n_outs) = 2
    /\ n_outs[1] = <<"shi">>
    /\ n_outs[2] = <<"shi">>

====
